---- MODULE Spec2Model ----
(***************************************************************************)
(* Model of the real-estate analysis chatbot backend                       *)
(* (backend/chatbot/views.py, backend/chatbot/utils.py).                   *)
(*                                                                         *)
(* Text is a sequence of one-character strings, so that Python's           *)
(* character-level operations (substring test, replace, split, strip,      *)
(* title) are computed as Python computes them.                            *)
(***************************************************************************)
EXTENDS Integers, Sequences, FiniteSets

(***************************************************************************)
(* Characters and Python's str methods                                     *)
(***************************************************************************)
LowerChars == <<"a","b","c","d","e","f","g","h","i","j","k","l","m",
                "n","o","p","q","r","s","t","u","v","w","x","y","z">>

UpperChars == <<"A","B","C","D","E","F","G","H","I","J","K","L","M",
                "N","O","P","Q","R","S","T","U","V","W","X","Y","Z">>

DigitChars == {"0","1","2","3","4","5","6","7","8","9"}

IsLowerChar(c) == \E i \in 1..Len(LowerChars) : LowerChars[i] = c

IsUpperChar(c) == \E i \in 1..Len(UpperChars) : UpperChars[i] = c

IsCased(c) == IsLowerChar(c) \/ IsUpperChar(c)

IsSpace(c) == c = " "

LowerChar(c) ==
    IF IsUpperChar(c)
    THEN LowerChars[CHOOSE i \in 1..Len(UpperChars) : UpperChars[i] = c]
    ELSE c

UpperChar(c) ==
    IF IsLowerChar(c)
    THEN UpperChars[CHOOSE i \in 1..Len(LowerChars) : LowerChars[i] = c]
    ELSE c

\* str.lower()
Lower(s) == [i \in 1..Len(s) |-> LowerChar(s[i])]

\* str.title(): a cased character is upper-cased when the character before it
\* is not cased (or it is the first), lower-cased otherwise.
Title(s) ==
    [i \in 1..Len(s) |->
        IF i > 1 /\ IsCased(s[i-1]) THEN LowerChar(s[i]) ELSE UpperChar(s[i])]

\* str.isdigit()
IsDigitStr(s) == Len(s) > 0 /\ \A i \in 1..Len(s) : s[i] \in DigitChars

\* s.startswith(p)
StartsWith(s, p) == Len(p) <= Len(s) /\ SubSeq(s, 1, Len(p)) = p

Drop(s, n) == SubSeq(s, n + 1, Len(s))

\* sub in s
Contains(s, sub) ==
    \E i \in 0..(Len(s) - Len(sub)) : SubSeq(s, i + 1, i + Len(sub)) = sub

\* s.replace(old, ''): leftmost, non-overlapping occurrences are removed
RECURSIVE Remove(_, _)
Remove(s, old) ==
    IF Len(s) < Len(old) THEN s
    ELSE IF StartsWith(s, old) THEN Remove(Drop(s, Len(old)), old)
    ELSE <<Head(s)>> \o Remove(Tail(s), old)

\* s.strip()
RECURSIVE LStrip(_)
LStrip(s) == IF s # <<>> /\ IsSpace(Head(s)) THEN LStrip(Tail(s)) ELSE s

RECURSIVE RStrip(_)
RStrip(s) ==
    IF s # <<>> /\ IsSpace(s[Len(s)]) THEN RStrip(SubSeq(s, 1, Len(s) - 1)) ELSE s

Strip(s) == RStrip(LStrip(s))

\* s.split(sep): the pieces between the leftmost, non-overlapping occurrences
\* of sep, empty pieces included
RECURSIVE SplitAcc(_, _, _)
SplitAcc(s, sep, cur) ==
    IF Len(s) < Len(sep) THEN <<cur \o s>>
    ELSE IF StartsWith(s, sep) THEN <<cur>> \o SplitAcc(Drop(s, Len(sep)), sep, <<>>)
    ELSE SplitAcc(Tail(s), sep, Append(cur, Head(s)))

SplitOn(s, sep) == SplitAcc(s, sep, <<>>)

\* s.split(): the maximal runs of non-whitespace characters
RECURSIVE WordsAcc(_, _)
WordsAcc(s, cur) ==
    IF s = <<>> THEN (IF cur = <<>> THEN <<>> ELSE <<cur>>)
    ELSE IF IsSpace(Head(s))
         THEN (IF cur = <<>> THEN <<>> ELSE <<cur>>) \o WordsAcc(Tail(s), <<>>)
         ELSE WordsAcc(Tail(s), Append(cur, Head(s)))

Words(s) == WordsAcc(s, <<>>)

\* ' '.join(parts)
RECURSIVE JoinSpace(_)
JoinSpace(parts) ==
    IF parts = <<>> THEN <<>>
    ELSE IF Len(parts) = 1 THEN parts[1]
    ELSE parts[1] \o <<" ">> \o JoinSpace(Tail(parts))

\* [part.strip() for part in parts]
StripEach(parts) == [i \in 1..Len(parts) |-> Strip(parts[i])]

(***************************************************************************)
(* Literals of the source                                                  *)
(***************************************************************************)
\* None, kept apart from every text (a text holds characters only)
None == <<"None">>

\* Python truthiness of an optional text: None and '' are falsy
Truthy(a) == a # None /\ a # <<>>

kwCompare == <<"c","o","m","p","a","r","e">>

kwPriceGrowth == <<"p","r","i","c","e"," ","g","r","o","w","t","h">>

kwPriceTrend == <<"p","r","i","c","e"," ","t","r","e","n","d">>

sepAnd == <<" ","a","n","d"," ">>

sepComma == <<",">>

DefaultArea == <<"W","a","k","a","d">>

\* the words extract_single_area_from_query removes with str.replace, in order
query_words ==
    << <<"a","n","a","l","y","z","e">>,
       <<"a","n","a","l","y","s","i","s">>,
       <<"s","h","o","w">>,
       <<"p","r","i","c","e">>,
       <<"g","r","o","w","t","h">>,
       <<"t","r","e","n","d">>,
       <<"f","o","r">>,
       <<"m","e">>,
       <<"g","i","v","e">> >>

\* stop_words of extract_single_area_from_query
stop_words ==
    { <<"o","f">>,
      <<"t","h","e">>,
      <<"a">>,
      <<"a","n">>,
      <<"l","a","s","t">>,
      <<"y","e","a","r","s">>,
      <<"y","e","a","r">>,
      <<"d","e","m","a","n","d">> }

(***************************************************************************)
(* views.py: area extraction                                               *)
(***************************************************************************)
\* query.replace(w1, '').replace(w2, '')... for the first n words, in order
RECURSIVE RemoveAll(_, _, _)
RemoveAll(s, olds, n) ==
    IF n = 0 THEN s ELSE Remove(RemoveAll(s, olds, n - 1), olds[n])

IsAreaWord(word) ==
    /\ Lower(word) \notin stop_words
    /\ ~IsDigitStr(word)
    /\ Strip(word) # <<>>

IsCapitalized(word) == IsUpperChar(word[1])

extract_single_area_from_query(query) ==
    LET stripped == RemoveAll(query, query_words, Len(query_words))
        words == Words(stripped)
        area_words == SelectSeq(words, IsAreaWord)
        area == IF area_words # <<>> THEN Title(JoinSpace(area_words)) ELSE None
        capitalized_words == SelectSeq(words, IsCapitalized)
    IN  IF Truthy(area) THEN area
        ELSE IF capitalized_words # <<>> THEN JoinSpace(capitalized_words)
        ELSE area

\* [area.strip().title() for area in areas]
StripTitleEach(areas) == [i \in 1..Len(areas) |-> Title(Strip(areas[i]))]

NonBlank(area) == Strip(area) # <<>>

\* extract_multiple_areas trying the comma before " and "
extract_multiple_areas_comma_first(query) ==
    LET q == Strip(Remove(query, kwCompare))
        words == Words(q)
        areas == IF Contains(q, sepComma) THEN StripEach(SplitOn(q, sepComma))
                 ELSE IF Contains(q, sepAnd) THEN StripEach(SplitOn(q, sepAnd))
                 ELSE IF Len(words) >= 2 THEN SubSeq(words, 1, 2)
                 ELSE words
    IN  StripTitleEach(SelectSeq(areas, NonBlank))

extract_multiple_areas(query) ==
    LET q == Strip(Remove(query, kwCompare))
        words == Words(q)
        areas == IF Contains(q, sepAnd) THEN StripEach(SplitOn(q, sepAnd))
                 ELSE IF Contains(q, sepComma) THEN StripEach(SplitOn(q, sepComma))
                 ELSE IF Len(words) >= 2 THEN SubSeq(words, 1, 2)
                 ELSE words
    IN  StripTitleEach(SelectSeq(areas, NonBlank))

(***************************************************************************)
(* Numbers.  A float is kept exact: a fraction n/d with d > 0, or one of    *)
(* the IEEE values a division by zero produces.                            *)
(***************************************************************************)
Fin(n, d) == [k |-> "fin", n |-> n, d |-> d]

PosInf == [k |-> "inf", n |-> 1, d |-> 0]

NegInf == [k |-> "-inf", n |-> -1, d |-> 0]

NaN == [k |-> "nan", n |-> 0, d |-> 0]

\* numpy's a / b on numpy scalars: a zero divisor gives inf, -inf or nan
\* (with a RuntimeWarning), never an exception
NpDivide(a, b) ==
    IF b > 0 THEN Fin(a, b)
    ELSE IF b < 0 THEN Fin(-a, -b)
    ELSE IF a > 0 THEN PosInf
    ELSE IF a < 0 THEN NegInf
    ELSE NaN

\* a whole number as a float
Whole(n) == Fin(n, 1)

RECURSIVE GCD(_, _)
GCD(a, b) == IF b = 0 THEN a ELSE GCD(b, a % b)

Abs(n) == IF n < 0 THEN -n ELSE n

\* the fraction n/d, d > 0, in lowest terms
Reduced(n, d) == LET g == GCD(Abs(n), d) IN Fin(n \div g, d \div g)

\* x + y, x / y, x * y and x <= y for finite x and y (y > 0 in the division)
Plus(x, y) == Reduced(x.n * y.d + y.n * x.d, x.d * y.d)

Divide(x, y) == Reduced(x.n * y.d, x.d * y.n)

Product(x, y) == Reduced(x.n * y.n, x.d * y.d)

Le(x, y) == x.n * y.d <= y.n * x.d

\* x * c for an integer c > 0
Times(x, c) == IF x.k = "fin" THEN Fin(x.n * c, x.d) ELSE x

\* x / c for an integer c > 0
Over(x, c) == IF x.k = "fin" THEN Fin(x.n, x.d * c) ELSE x

\* x > c for an integer c; every comparison with nan is False
Gt(x, c) ==
    CASE x.k = "fin" -> x.n > c * x.d
      [] x.k = "inf" -> TRUE
      [] OTHER -> FALSE

(***************************************************************************)
(* utils.py: RealEstateAnalyzer                                            *)
(***************************************************************************)
Row(y, a, p, dm, sz) == [year |-> y, area |-> a, price |-> p, demand |-> dm, size |-> sz]

\* len(self.df) > MinRealRows is what analyze_area takes for real data
MinRealRows == 10

SampleYears == <<2020, 2021, 2022, 2023>>

SamplePrices == <<500000, 550000, 600000, 650000>>

SampleDemands == <<75, 80, 85, 82>>

SampleSizes == <<1000, 1100, 1200, 1250>>

sWakad == <<"W","a","k","a","d">>

sAundh == <<"A","u","n","d","h">>

sAkurdi == <<"A","k","u","r","d","i">>

create_sample_data ==
    [i \in 1..4 |-> Row(SampleYears[i], sWakad, SamplePrices[i], Whole(SampleDemands[i]),
                    SampleSizes[i])]
    \o [i \in 1..4 |-> Row(SampleYears[i], sAundh,
                           <<600000, 650000, 700000, 750000>>[i],
                           Whole(<<70, 75, 80, 78>>[i]),
                           <<1100, 1150, 1200, 1250>>[i])]
    \o [i \in 1..4 |-> Row(SampleYears[i], sAkurdi,
                           <<450000, 480000, 520000, 560000>>[i],
                           Whole(<<65, 70, 75, 77>>[i]),
                           <<950, 1000, 1050, 1100>>[i])]

(***************************************************************************)
(* utils.py: load_data, process_real_data, clean_data.  The Excel file is   *)
(* a record: whether read_excel can read it, its column names and its rows, *)
(* each row one cell per column.  A cell is a number, nan (a blank cell) or *)
(* a text; a locality cell is a text or blank.                              *)
(***************************************************************************)
TextCell(s) == [k |-> "text", s |-> s]

colFinalLocation ==
    <<"f","i","n","a","l"," ","l","o","c","a","t","i","o","n">>

colYear ==
    <<"y","e","a","r">>

colFlatRate ==
    <<"f","l","a","t"," ","-"," ","w","e","i","g","h","t","e","d"," ","a",
      "v","e","r","a","g","e"," ","r","a","t","e">>

colTotalSales ==
    <<"t","o","t","a","l","_","s","a","l","e","s"," ","-"," ","i","g","r">>

colCarpetArea ==
    <<"t","o","t","a","l"," ","c","a","r","p","e","t"," ","a","r","e","a",
      " ","s","u","p","p","l","i","e","d"," ","(","s","q","f","t",")">>

colArea ==
    <<"a","r","e","a">>

colPrice ==
    <<"p","r","i","c","e">>

colDemand ==
    <<"d","e","m","a","n","d">>

colSize ==
    <<"s","i","z","e">>

kwRate ==
    <<"r","a","t","e">>

kwSold ==
    <<"s","o","l","d">>

kwSales ==
    <<"s","a","l","e","s">>

\* the keys of column_mapping and what each is renamed to
column_mapping(c) ==
    CASE c = colFinalLocation -> colArea
      [] c = colYear -> colYear
      [] c = colFlatRate -> colPrice
      [] c = colTotalSales -> colDemand
      [] c = colCarpetArea -> colSize
      [] OTHER -> c

\* df.rename(columns=column_mapping)
rename(columns) == [i \in 1..Len(columns) |-> column_mapping(columns[i])]

\* the position of the column of that name, 0 when there is none
ColumnOf(columns, name) ==
    LET hits == {i \in 1..Len(columns) : columns[i] = name}
    IN  IF hits = {} THEN 0 ELSE CHOOSE i \in hits : \A j \in hits : i <= j

\* the first column whose lower-cased name contains one of two words, 0 when
\* there is none
ColumnContaining(columns, w1, w2) ==
    LET hits == {i \in 1..Len(columns) :
                    \/ Contains(Lower(columns[i]), w1)
                    \/ Contains(Lower(columns[i]), w2)}
    IN  IF hits = {} THEN 0 ELSE CHOOSE i \in hits : \A j \in hits : i <= j

\* pd.to_numeric(..., errors='coerce'): what is not a number becomes nan
ToNumeric(c) == IF c.k = "fin" THEN c ELSE NaN

\* Series.fillna(v)
FillNa(c, v) == IF c.k = "nan" THEN v ELSE c

RECURSIVE InsertNumber(_, _)
InsertNumber(sorted, x) ==
    IF sorted = <<>> THEN <<x>>
    ELSE IF Le(sorted[Len(sorted)], x) THEN Append(sorted, x)
    ELSE Append(InsertNumber(SubSeq(sorted, 1, Len(sorted) - 1), x), sorted[Len(sorted)])

\* the numbers of a column in ascending order, nan left out
RECURSIVE SortedNumbers(_)
SortedNumbers(cells) ==
    IF cells = <<>> THEN <<>>
    ELSE LET rest == SortedNumbers(SubSeq(cells, 1, Len(cells) - 1))
             last == cells[Len(cells)]
         IN  IF last.k = "fin" THEN InsertNumber(rest, last) ELSE rest

\* Series.median(): nan is skipped; nan when nothing is left
Median(cells) ==
    LET sorted == SortedNumbers(cells)
        n == Len(sorted)
    IN  IF n = 0 THEN NaN
        ELSE IF n % 2 = 1 THEN sorted[(n + 1) \div 2]
        ELSE Divide(Plus(sorted[n \div 2], sorted[n \div 2 + 1]), Whole(2))

\* Series.max(): nan is skipped; nan when nothing is left
Max(cells) ==
    LET sorted == SortedNumbers(cells)
    IN  IF sorted = <<>> THEN NaN ELSE sorted[Len(sorted)]

\* a year, price or size as the integer the rows carry (the sources below
\* have whole numbers in those columns)
AsWhole(x) == x.n \div x.d

Raised == [raised |-> TRUE, rows |-> <<>>]

\* clean_data with the demand column left on the scale of the source
clean_data_unscaled(frame) ==
    IF ~({"area", "year"} \subseteq frame.columns) THEN Raised
    ELSE
    LET Present(r) == r.area.k # "nan" /\ r.year.k # "nan"
        kept == SelectSeq(frame.rows, Present)
        numeric == [i \in 1..Len(kept) |->
                       [area |-> kept[i].area,
                        year |-> ToNumeric(kept[i].year),
                        price |-> ToNumeric(kept[i].price),
                        demand |-> ToNumeric(kept[i].demand),
                        size |-> ToNumeric(kept[i].size)]]
        HasYear(r) == r.year.k # "nan"
        valid == SelectSeq(numeric, HasYear)
        price_median == Median([i \in 1..Len(valid) |-> valid[i].price])
        demand_median == Median([i \in 1..Len(valid) |-> valid[i].demand])
    IN  [raised |-> FALSE,
         rows |-> [i \in 1..Len(valid) |->
                      Row(AsWhole(valid[i].year),
                          Strip(Title(valid[i].area.s)),
                          AsWhole(FillNa(valid[i].price, price_median)),
                          FillNa(valid[i].demand, demand_median),
                          AsWhole(FillNa(valid[i].size, Whole(1000))))]]

\* clean_data: dropna(subset=['area', 'year']) raises KeyError when one of
\* the two columns is missing
clean_data(frame) ==
    IF ~({"area", "year"} \subseteq frame.columns) THEN Raised
    ELSE
    LET Present(r) == r.area.k # "nan" /\ r.year.k # "nan"
        kept == SelectSeq(frame.rows, Present)
        numeric == [i \in 1..Len(kept) |->
                       [area |-> kept[i].area,
                        year |-> ToNumeric(kept[i].year),
                        price |-> ToNumeric(kept[i].price),
                        demand |-> ToNumeric(kept[i].demand),
                        size |-> ToNumeric(kept[i].size)]]
        HasYear(r) == r.year.k # "nan"
        valid == SelectSeq(numeric, HasYear)
        price_median == Median([i \in 1..Len(valid) |-> valid[i].price])
        demand_median == Median([i \in 1..Len(valid) |-> valid[i].demand])
        filled == [i \in 1..Len(valid) |-> FillNa(valid[i].demand, demand_median)]
        max_demand == Max(filled)
    IN  [raised |-> FALSE,
         rows |-> [i \in 1..Len(valid) |->
                      Row(AsWhole(valid[i].year),
                          Strip(Title(valid[i].area.s)),
                          AsWhole(FillNa(valid[i].price, price_median)),
                          IF Gt(max_demand, 100)
                          THEN Product(Divide(filled[i], max_demand), Whole(100))
                          ELSE filled[i],
                          AsWhole(FillNa(valid[i].size, Whole(1000))))]]

\* the frame process_real_data hands to clean_data: the renamed columns, and
\* a default or an alternative column for a missing price, demand or size
required_columns(columns, rows) ==
    LET renamed == rename(columns)
        area_at == ColumnOf(renamed, colArea)
        year_at == ColumnOf(renamed, colYear)
        price_at == IF ColumnOf(renamed, colPrice) # 0 THEN ColumnOf(renamed, colPrice)
                    ELSE ColumnContaining(renamed, kwRate, colPrice)
        demand_at == IF ColumnOf(renamed, colDemand) # 0 THEN ColumnOf(renamed, colDemand)
                     ELSE ColumnContaining(renamed, kwSold, kwSales)
        size_at == ColumnOf(renamed, colSize)
        Cell(r, at, default) == IF at = 0 THEN default ELSE r[at]
    IN  [columns |-> {"price", "demand", "size"}
                        \cup (IF area_at # 0 THEN {"area"} ELSE {})
                        \cup (IF year_at # 0 THEN {"year"} ELSE {}),
         rows |-> [i \in 1..Len(rows) |->
                      [area |-> Cell(rows[i], area_at, NaN),
                       year |-> Cell(rows[i], year_at, NaN),
                       price |-> Cell(rows[i], price_at, Whole(500000)),
                       demand |-> Cell(rows[i], demand_at, Whole(75)),
                       size |-> Cell(rows[i], size_at, Whole(1000))]]]

process_real_data(columns, rows) == clean_data(required_columns(columns, rows))

\* the except branch of load_data is taken: read_excel raised, or
\* process_real_data did
LoadFails(file) ==
    \/ ~file.readable
    \/ process_real_data(file.columns, file.rows).raised

load_data(file) ==
    IF ~file.readable THEN create_sample_data
    ELSE LET processed == process_real_data(file.columns, file.rows)
         IN  IF processed.raised THEN create_sample_data ELSE processed.rows

\* data.sort_values('year'): ascending, rows of equal year keep their order
RECURSIVE InsertByYear(_, _)
InsertByYear(sorted, r) ==
    IF sorted = <<>> THEN <<r>>
    ELSE IF sorted[Len(sorted)].year <= r.year THEN Append(sorted, r)
    ELSE Append(InsertByYear(SubSeq(sorted, 1, Len(sorted) - 1), r), sorted[Len(sorted)])

RECURSIVE sort_values_year(_)
sort_values_year(data) ==
    IF data = <<>> THEN <<>>
    ELSE InsertByYear(sort_values_year(SubSeq(data, 1, Len(data) - 1)), data[Len(data)])

RECURSIVE SumOf(_, _)
SumOf(data, col) == IF data = <<>> THEN 0 ELSE data[1][col] + SumOf(Tail(data), col)

\* data[col].mean() of a column of whole numbers
Mean(data, col) == NpDivide(SumOf(data, col), Len(data))

\* data['demand'].mean(): the mean of the values that are not nan, nan when
\* there is none
RECURSIVE SumOfDemand(_)
SumOfDemand(data) ==
    IF data = <<>> THEN Whole(0) ELSE Plus(data[1].demand, SumOfDemand(Tail(data)))

MeanDemand(data) ==
    LET IsNumber(r) == r.demand.k = "fin"
        numbers == SelectSeq(data, IsNumber)
    IN  IF numbers = <<>> THEN NaN
        ELSE Divide(SumOfDemand(numbers), Whole(Len(numbers)))

RECURSIVE MaxYear(_)
MaxYear(data) ==
    IF Len(data) = 1 THEN data[1].year
    ELSE LET m == MaxYear(Tail(data)) IN IF data[1].year > m THEN data[1].year ELSE m

\* RealEstateAnalyzer.calculate_price_growth
analyzer_calculate_price_growth(data) ==
    IF Len(data) < 2 THEN Fin(0, 1)
    ELSE LET sorted_data == sort_values_year(data)
             first_price == sorted_data[1].price
             last_price == sorted_data[Len(sorted_data)].price
         IN  Times(NpDivide(last_price - first_price, first_price), 100)

\* price_trend_label with the "appreciating" threshold in place of 15
price_trend_label_ten(price_growth) ==
    IF Gt(price_growth, 10) THEN "significant growth"
    ELSE IF Gt(price_growth, 5) THEN "moderate growth"
    ELSE "stable"

price_trend_label(price_growth) ==
    IF Gt(price_growth, 15) THEN "significant growth"
    ELSE IF Gt(price_growth, 5) THEN "moderate growth"
    ELSE "stable"

demand_level_label(avg_demand) ==
    IF Gt(avg_demand, 80) THEN "high"
    ELSE IF Gt(avg_demand, 60) THEN "moderate"
    ELSE "low"

market_label(price_growth) == IF Gt(price_growth, 10) THEN "appreciating" ELSE "stable"

recommendation_label(price_growth, avg_demand) ==
    IF Gt(price_growth, 15) /\ Gt(avg_demand, 70) THEN "strong investment potential"
    ELSE IF Gt(price_growth, 5) THEN "moderate potential"
    ELSE "stable performance"

NoGrowthAnalysis == [kind |-> "absent"]

\* The summary text, as the values its template interpolates; growth_analysis
\* is the block analyze_query appends for a price-growth query.
generate_summary(data0, area_name, is_real_data) ==
    LET data == sort_values_year(data0)
        avg_price == Mean(data, "price")
        avg_demand == MeanDemand(data)
        price_growth == analyzer_calculate_price_growth(data)
    IN  [area_name |-> area_name,
         is_real_data |-> is_real_data,
         avg_price |-> avg_price,
         avg_demand |-> avg_demand,
         latest_year |-> MaxYear(data),
         records |-> Len(data),
         price_growth |-> price_growth,
         price_trend |-> price_trend_label(price_growth),
         demand_level |-> demand_level_label(avg_demand),
         market |-> market_label(price_growth),
         recommendation |-> recommendation_label(price_growth, avg_demand),
         growth_analysis |-> NoGrowthAnalysis]

prepare_chart_data(data0) ==
    LET data == sort_values_year(data0)
    IN  [price_trend |-> [labels |-> [i \in 1..Len(data) |-> data[i].year],
                          data |-> [i \in 1..Len(data) |-> data[i].price]],
         demand_trend |-> [labels |-> [i \in 1..Len(data) |-> data[i].year],
                           data |-> [i \in 1..Len(data) |-> data[i].demand]]]

\* generate_sample_analysis looking the name up in the sample data without
\* regard to case
generate_sample_analysis_anycase(area_name) ==
    LET IsArea(r) == Lower(r.area) = Lower(area_name)
        found == SelectSeq(create_sample_data, IsArea)
        area_sample ==
            IF found = <<>>
            THEN [i \in 1..4 |-> Row(SampleYears[i], area_name, SamplePrices[i],
                                     Whole(SampleDemands[i]), SampleSizes[i])]
            ELSE found
    IN  [summary |-> generate_summary(area_sample, area_name, FALSE),
         chart_data |-> prepare_chart_data(area_sample),
         table_data |-> area_sample,
         area |-> area_name,
         data_source |-> "Sample Data"]

generate_sample_analysis(area_name) ==
    LET IsArea(r) == r.area = area_name
        found == SelectSeq(create_sample_data, IsArea)
        area_sample ==
            IF found = <<>>
            THEN [i \in 1..4 |-> Row(SampleYears[i], area_name, SamplePrices[i],
                                     Whole(SampleDemands[i]), SampleSizes[i])]
            ELSE found
    IN  [summary |-> generate_summary(area_sample, area_name, FALSE),
         chart_data |-> prepare_chart_data(area_sample),
         table_data |-> area_sample,
         area |-> area_name,
         data_source |-> "Sample Data"]

\* df['area'].unique(): the distinct names in order of first appearance
RECURSIVE UniqueAreas(_)
UniqueAreas(rows) ==
    IF rows = <<>> THEN <<>>
    ELSE LET before == UniqueAreas(SubSeq(rows, 1, Len(rows) - 1))
             a == rows[Len(rows)].area
         IN  IF \E i \in 1..Len(before) : before[i] = a THEN before ELSE Append(before, a)

matching_areas(rows, area_name) ==
    LET area_pattern == Lower(area_name)
        Matches(area) == Contains(Lower(area), area_pattern)
    IN  SelectSeq(UniqueAreas(rows), Matches)

analyze_area(rows, area_name) ==
    LET is_real_data == Len(rows) > MinRealRows
        matching == matching_areas(rows, area_name)
        matched_area == matching[1]
        InArea(r) == Lower(r.area) = Lower(matched_area)
        area_data == SelectSeq(rows, InArea)
    IN  IF ~is_real_data \/ rows = <<>> THEN generate_sample_analysis(area_name)
        ELSE IF matching = <<>> THEN generate_sample_analysis(area_name)
        ELSE IF area_data = <<>> THEN generate_sample_analysis(area_name)
        ELSE [summary |-> generate_summary(area_data, matched_area, TRUE),
              chart_data |-> prepare_chart_data(area_data),
              table_data |-> area_data,
              area |-> matched_area,
              data_source |-> "Real Excel Data"]

compare_areas(rows, area1, area2) ==
    [area1 |-> analyze_area(rows, area1),
     area2 |-> analyze_area(rows, area2),
     comparison_summary |-> <<area1, area2>>]

(***************************************************************************)
(* views.py: the detailed price-growth breakdown and the request handlers  *)
(***************************************************************************)
growth_trend_label(growth_percentage) ==
    IF Gt(growth_percentage, 20) THEN "Strong growth"
    ELSE IF Gt(growth_percentage, 10) THEN "Moderate growth"
    ELSE IF Gt(growth_percentage, 0) THEN "Slow growth"
    ELSE "Price decline"

\* views.calculate_price_growth(table_data).  The rows of table_data hold
\* Python numbers (DataFrame.to_dict('records')), so a zero first price
\* raises ZeroDivisionError: kind "raise".
calculate_price_growth(table_data) ==
    IF Len(table_data) < 2 THEN [kind |-> "insufficient"]
    ELSE LET sorted_data == sort_values_year(table_data)
             first_year == sorted_data[1].year
             last_year == sorted_data[Len(sorted_data)].year
             first_price == sorted_data[1].price
             last_price == sorted_data[Len(sorted_data)].price
             total_growth == last_price - first_price
             growth_percentage == Times(NpDivide(total_growth, first_price), 100)
             years_diff == last_year - first_year
         IN  IF first_price = 0 THEN [kind |-> "raise"]
             ELSE [kind |-> "info",
                   first_year |-> first_year,
                   last_year |-> last_year,
                   years_diff |-> years_diff,
                   first_price |-> first_price,
                   last_price |-> last_price,
                   total_growth |-> total_growth,
                   growth_percentage |-> growth_percentage,
                   annual_growth |->
                       IF years_diff > 0 THEN NpDivide(total_growth, years_diff)
                       ELSE Fin(0, 1),
                   annual_growth_percentage |->
                       IF years_diff > 0 THEN Over(growth_percentage, years_diff)
                       ELSE Fin(0, 1),
                   trend |-> growth_trend_label(growth_percentage)]

ErrorResponse(status, intent, error) ==
    [status |-> status, intent |-> intent, body |-> [type |-> "error", error |-> error]]

AnalysisResponse(intent, result) ==
    [status |-> 200, intent |-> intent, body |-> [type |-> "analysis", result |-> result]]

ComparisonResponse(rows, areas) ==
    [status |-> 200, intent |-> "Compare",
     body |-> [type |-> "comparison",
               area1 |-> analyze_area(rows, areas[1]),
               area2 |-> analyze_area(rows, areas[2]),
               comparison_summary |-> <<areas[1], areas[2]>>]]

\* the price-growth branch of analyze_query
PriceGrowthResponse(rows, area) ==
    LET result == analyze_area(rows, area)
        price_growth_info == calculate_price_growth(result.table_data)
    IN  IF price_growth_info.kind = "raise"
        THEN ErrorResponse(500, "PriceGrowth", "Internal server error")
        ELSE AnalysisResponse("PriceGrowth",
                 [result EXCEPT !.summary.growth_analysis = price_growth_info])

\* analyze_query past the empty-query check, with the intent rules in another
\* order: price growth before compare
dispatch_query_growth_first(rows, query) ==
    LET areas == extract_multiple_areas(query)
        area == extract_single_area_from_query(query)
    IN  IF Contains(query, kwPriceGrowth) \/ Contains(query, kwPriceTrend)
        THEN IF Truthy(area) THEN PriceGrowthResponse(rows, area)
             ELSE ErrorResponse(200, "PriceGrowth", "Please specify an area for price analysis")
        ELSE IF Contains(query, kwCompare)
        THEN IF Len(areas) >= 2 THEN ComparisonResponse(rows, areas)
             ELSE ErrorResponse(200, "Compare", "Please specify two areas to compare")
        ELSE IF Truthy(area) THEN AnalysisResponse("SingleArea", analyze_area(rows, area))
             ELSE AnalysisResponse("SingleArea", analyze_area(rows, DefaultArea))

\* analyze_query past the empty-query check: the three branches, in order.
\* intent names the branch of the handler that answered.
dispatch_query(rows, query) ==
    LET areas == extract_multiple_areas(query)
        area == extract_single_area_from_query(query)
    IN  IF Contains(query, kwCompare)
        THEN IF Len(areas) >= 2 THEN ComparisonResponse(rows, areas)
             ELSE ErrorResponse(200, "Compare", "Please specify two areas to compare")
        ELSE IF Contains(query, kwPriceGrowth) \/ Contains(query, kwPriceTrend)
        THEN IF Truthy(area) THEN PriceGrowthResponse(rows, area)
             ELSE ErrorResponse(200, "PriceGrowth", "Please specify an area for price analysis")
        ELSE IF Truthy(area) THEN AnalysisResponse("SingleArea", analyze_area(rows, area))
             ELSE AnalysisResponse("SingleArea", analyze_area(rows, DefaultArea))

\* analyze_query without its empty-query check
analyze_query_unchecked(rows, raw_query) == dispatch_query(rows, Lower(raw_query))

analyze_query(rows, raw_query) ==
    LET query == Lower(raw_query)
    IN  IF query = <<>> THEN ErrorResponse(400, "none", "Query cannot be empty")
        ELSE dispatch_query(rows, query)

\* download_data's error responses
DownloadError(status, error) ==
    [status |-> status, body |-> [type |-> "error", error |-> error]]

\* the file download_data writes from combined_data: its rows, the parts of
\* its name and its format (csv when asked for, Excel otherwise)
FileResponse(format_type, filename, combined_data) ==
    [status |-> 200,
     body |-> [type |-> "file",
               format |-> IF format_type = "csv" THEN "csv" ELSE "xlsx",
               filename |-> filename,
               rows |-> combined_data]]

download_data(rows, raw_query, format_type) ==
    LET query == Lower(raw_query)
        areas == extract_multiple_areas(query)
        area == extract_single_area_from_query(query)
    IN  IF query = <<>> THEN DownloadError(400, "Query cannot be empty")
        ELSE IF Contains(query, kwCompare)
        THEN IF Len(areas) >= 2
             THEN FileResponse(format_type, <<"comparison", areas[1], areas[2]>>,
                               analyze_area(rows, areas[1]).table_data
                                   \o analyze_area(rows, areas[2]).table_data)
             ELSE DownloadError(400, "Please specify two areas to compare")
        ELSE IF Truthy(area)
        THEN FileResponse(format_type, <<"analysis", area>>,
                          analyze_area(rows, area).table_data)
        ELSE DownloadError(400, "Please specify an area to analyze")

(***************************************************************************)
(* Inputs: the Excel files a process can be constructed from, the datasets *)
(* it then holds, and the requests it can receive                          *)
(***************************************************************************)
\* rows of one locality in a generated dataset
MaxAreaRows == 3

\* words after the leading phrase of a generated query
MaxTokens == 3

sWakadEast == <<"W","a","k","a","d"," ","E","a","s","t">>

sBaner == <<"B","a","n","e","r">>

\* localities of a loaded dataset, as clean_data leaves their names
\* (title-cased, trimmed)
Localities == {sWakadEast, sWakad}

FirstPrices == {0, 100}

LastPrices == {0, 90, 100, 105, 106, 110, 111, 115, 116, 120, 121}

\* rows of a further locality that no request names: they only count
\* towards len(df)
FillerCounts == {9, 11}

FillerRows(n) == [i \in 1..n |-> Row(2000 + i, sBaner, 100, Whole(50), 900)]

\* n rows of one locality: the earliest year carries price p1, the latest pn;
\* stored in ascending year order, in descending order, or all in one year
AreaRows(area, n, p1, pn, order) ==
    LET PriceAt(i) == IF i = 1 THEN p1 ELSE IF i = n THEN pn ELSE 104
        asc == [i \in 1..n |-> Row(IF order = "flat" THEN 2020 ELSE 2019 + i,
                                   area, PriceAt(i), Whole(75), 1000)]
    IN  IF order = "desc" THEN [i \in 1..n |-> asc[n + 1 - i]] ELSE asc

\* sequences of distinct localities: the order in which they appear
AreaOrders ==
    {<<>>} \cup {<<a>> : a \in Localities}
           \cup {<<p[1], p[2]>> : p \in {x \in Localities \X Localities : x[1] # x[2]}}

RECURSIVE Blocks(_, _, _, _, _)
Blocks(areas, n, p1, pn, order) ==
    IF areas = <<>> THEN <<>>
    ELSE AreaRows(areas[1], n, p1, pn, order) \o Blocks(Tail(areas), n, p1, pn, order)

RealDatasets ==
    { Blocks(areas, n, p1, pn, order) \o FillerRows(f) :
        areas \in AreaOrders, n \in 1..MaxAreaRows, p1 \in FirstPrices,
        pn \in LastPrices, order \in {"asc", "desc", "flat"}, f \in FillerCounts }

\* the column names of the Excel file the loader was written for
ExcelColumns == <<colFinalLocation, colYear, colFlatRate, colTotalSales, colCarpetArea>>

\* an Excel file holding the rows of a dataset, the locality names in lower
\* case and followed by a blank
ExcelFile(rows) ==
    [readable |-> TRUE,
     columns |-> ExcelColumns,
     rows |-> [i \in 1..Len(rows) |->
                  <<TextCell(Append(Lower(rows[i].area), " ")), Whole(rows[i].year),
                    Whole(rows[i].price), rows[i].demand, Whole(rows[i].size)>>]]

\* no file at file_path, or one that read_excel cannot read
Unreadable == [readable |-> FALSE, columns |-> <<>>, rows |-> <<>>]

\* a readable file without a locality column
NoAreaFile ==
    [readable |-> TRUE,
     columns |-> Tail(ExcelColumns),
     rows |-> <<<<Whole(2020), Whole(100), Whole(75), Whole(1000)>>>>]

Files == {ExcelFile(rows) : rows \in RealDatasets} \cup {Unreadable, NoAreaFile}

\* the texts a request names a locality with
AreaPhrases == { <<"w","a","k","a","d">>,
               <<"W","a","k","a","d"," ","E","a","s","t">>,
               <<"a","u","n","d","h">>,
               <<"p","u","n","e">> }

\* direct arguments of analyze_area
AreaNames == AreaPhrases \cup {<<>>, sWakad, sAundh}

Spaced(a, b) == a \o <<" ">> \o b

CoreQueries ==
    {<<>>, <<"a","n","a","l","y","z","e">>, <<"p","r","i","c","e"," ","g","r","o","w","t","h">>, <<"c","o","m","p","a","r","e"," ","w","a","k","a","d">>}
    \cup {Spaced(lead, a) :
            lead \in { <<"a","n","a","l","y","z","e">>,
                    <<"s","h","o","w"," ","p","r","i","c","e"," ","g","r","o","w","t","h"," ","f","o","r">>,
                    <<"p","r","i","c","e"," ","t","r","e","n","d">> },
            a \in AreaPhrases}
    \cup {Spaced(kwCompare, a) \o sepAnd \o b : a \in AreaPhrases, b \in {sAundh, <<"w","a","k","a","d"," ","e","a","s","t">>}}

LeadPhrases == { <<>>,
               <<"c","o","m","p","a","r","e">>,
               <<"C","o","m","p","a","r","e">>,
               <<"a","n","a","l","y","z","e">>,
               <<"s","h","o","w"," ","p","r","i","c","e"," ","g","r","o","w","t","h"," ","f","o","r">>,
               <<"p","r","i","c","e"," ","t","r","e","n","d">>,
               <<"c","o","m","p","a","r","e"," ","p","r","i","c","e"," ","g","r","o","w","t","h">>,
               <<"g","i","v","e"," ","m","e"," ","a","n","a","l","y","s","i","s"," ","o","f">> }

Tokens == { <<"w","a","k","a","d">>,
          <<"A","u","n","d","h">>,
          <<"a","m","e","t","h","i">>,
          <<"a","n","d">>,
          <<"w","a","k","a","d",",">>,
          <<"2","0","2","3">>,
          <<"t","h","e">> }

RECURSIVE TokenSeqs(_)
TokenSeqs(n) ==
    IF n = 0 THEN {<<>>}
    ELSE LET shorter == TokenSeqs(n - 1)
         IN  shorter \cup {Append(ts, tk) : ts \in shorter, tk \in Tokens}

\* a leading phrase followed by up to MaxTokens words, single-spaced
Queries ==
    {IF lead = <<>> THEN JoinSpace(ts)
     ELSE IF ts = <<>> THEN lead
     ELSE Spaced(lead, JoinSpace(ts)) : lead \in LeadPhrases, ts \in TokenSeqs(MaxTokens)}

(***************************************************************************)
(* The process: the analyzer's dataset, loaded once, and one request at a  *)
(* time                                                                    *)
(***************************************************************************)
VARIABLES file, df, request, response

vars == <<file, df, request, response>>

NoRequest == [op |-> "none", args |-> <<>>]

NoResponse == [status |-> 0]

\* analyzer = RealEstateAnalyzer()
Init ==
    /\ file \in Files
    /\ df = load_data(file)
    /\ request = NoRequest
    /\ response = NoResponse

\* POST analyze/
AnalyzeQuery ==
    /\ request = NoRequest
    /\ \E q \in CoreQueries :
        /\ request' = [op |-> "analyze_query", args |-> <<q>>]
        /\ response' = analyze_query(df, q)
    /\ UNCHANGED <<file, df>>

\* analyzer.analyze_area(area_name)
AnalyzeArea ==
    /\ request = NoRequest
    /\ \E a \in AreaNames :
        /\ request' = [op |-> "analyze_area", args |-> <<a>>]
        /\ response' = [returned |-> analyze_area(df, a)]
    /\ UNCHANGED <<file, df>>

\* analyzer.compare_areas(area1, area2)
CompareAreas ==
    /\ request = NoRequest
    /\ \E a \in {sWakad, <<>>}, b \in {sAundh} :
        /\ request' = [op |-> "compare_areas", args |-> <<a, b>>]
        /\ response' = [returned |-> compare_areas(df, a, b)]
    /\ UNCHANGED <<file, df>>

\* POST download/
DownloadData ==
    /\ request = NoRequest
    /\ \E q \in CoreQueries, format_type \in {"excel", "csv"} :
        /\ request' = [op |-> "download_data", args |-> <<q, format_type>>]
        /\ response' = download_data(df, q, format_type)
    /\ UNCHANGED <<file, df>>

\* the response is delivered; nothing of the request is kept
Respond ==
    /\ request # NoRequest
    /\ request' = NoRequest
    /\ response' = NoResponse
    /\ UNCHANGED <<file, df>>

Next == AnalyzeQuery \/ AnalyzeArea \/ CompareAreas \/ DownloadData \/ Respond

Spec == Init /\ [][Next]_vars

\* The same process on the fallback dataset or one loaded dataset, receiving
\* every generated query text
InitQueries ==
    /\ file \in {Unreadable,
                 ExcelFile(AreaRows(sWakadEast, 2, 100, 110, "asc")
                           \o AreaRows(sWakad, 2, 100, 120, "asc") \o FillerRows(11))}
    /\ df = load_data(file)
    /\ request = NoRequest
    /\ response = NoResponse

AnalyzeAnyQuery ==
    /\ request = NoRequest
    /\ \E q \in Queries :
        /\ request' = [op |-> "analyze_query", args |-> <<q>>]
        /\ response' = analyze_query(df, q)
    /\ UNCHANGED <<file, df>>

NextQueries == AnalyzeAnyQuery \/ Respond

SpecQueries == InitQueries /\ [][NextQueries]_vars

\* The constructor alone, on Excel files of every shape of demand column
MaxFileRows == 3

sHigh == <<"h","i","g","h">>

DemandCells == {NaN, TextCell(sHigh), Whole(-5), Whole(0), Whole(40), Whole(150), Whole(200)}

\* a row of a file of five columns: locality, year, price, demand, size
FileRow(area, year, demand, size) == <<area, year, Whole(100), demand, size>>

\* rows the loader keeps, and rows it drops or completes: no locality, no
\* year, a year that is no number, no size
FileRows ==
    {FileRow(TextCell(<<"w","a","k","a","d"," ">>), Whole(2020), d, Whole(900)) : d \in DemandCells}
    \cup {FileRow(NaN, Whole(2021), Whole(200), Whole(900)),
          FileRow(TextCell(<<"a","u","n","d","h">>), NaN, Whole(200), Whole(900)),
          FileRow(TextCell(<<"a","u","n","d","h">>), TextCell(sHigh), Whole(200), Whole(900)),
          FileRow(TextCell(<<" ","a","u","n","d","h">>), Whole(2022), Whole(40), NaN)}

\* the columns as the loader expects them; the demand under a name that only
\* the search for 'sold' finds; no demand column; no locality column
ColumnNames ==
    {ExcelColumns,
     <<colFinalLocation, colYear, colFlatRate, <<"U","n","i","t","s"," ","S","o","l","d">>, colCarpetArea>>,
     <<colFinalLocation, colYear, colFlatRate, <<"r","e","m","a","r","k","s">>, colCarpetArea>>,
     <<<<"l","o","c","a","l","i","t","y">>, colYear, colFlatRate, colTotalSales, colCarpetArea>>}

LoadFiles ==
    {Unreadable}
    \cup {[readable |-> TRUE, columns |-> c, rows |-> rows] :
              c \in ColumnNames,
              rows \in UNION {[1..n -> FileRows] : n \in 0..MaxFileRows}}

\* RealEstateAnalyzer() has yet to run load_data
Constructing == [op |-> "__init__", args |-> <<>>]

InitLoad ==
    /\ file \in LoadFiles
    /\ df = <<>>
    /\ request = Constructing
    /\ response = NoResponse

\* self.df = self.load_data()
LoadData ==
    /\ request = Constructing
    /\ df' = load_data(file)
    /\ request' = NoRequest
    /\ UNCHANGED <<file, response>>

NextLoad == LoadData

SpecLoad == InitLoad /\ [][NextLoad]_vars

(***************************************************************************)
(* Properties                                                              *)
(***************************************************************************)
\* the analysis results the current response carries
Results ==
    CASE request.op = "analyze_area" -> {response.returned}
      [] request.op = "compare_areas" -> {response.returned.area1, response.returned.area2}
      [] request.op = "analyze_query" /\ response.body.type = "analysis" ->
             {response.body.result}
      [] request.op = "analyze_query" /\ response.body.type = "comparison" ->
             {response.body.area1, response.body.area2}
      [] OTHER -> {}

\* no locality of the dataset contains the name, whatever the case
NoLocalityMatches(rows, name) ==
    \A i \in 1..Len(rows) : ~Contains(Lower(rows[i].area), Lower(name))

\* C1: for every loaded dataset and every requested area name that matches no
\* locality of it, analyze_area returns a result whose data_source is the
\* sample tag and whose table_data has exactly 4 rows, of years 2020, 2021,
\* 2022, 2023, each carrying the requested name as its area.
C1_UnmatchedAreaGetsSample ==
    (request.op = "analyze_area" /\ NoLocalityMatches(df, request.args[1])) =>
        LET r == response.returned
        IN  /\ r.data_source = "Sample Data"
            /\ Len(r.table_data) = 4
            /\ \A i \in 1..4 : /\ r.table_data[i].year = 2019 + i
                               /\ r.table_data[i].area = request.args[1]

\* an unmatched lower-case name, asked of a dataset large enough to count as
\* real, is answered from the sample with the name as written
C1_Witness ==
    /\ request.op = "analyze_area"
    /\ request.args[1] = Lower(sAundh)
    /\ Len(df) > MinRealRows
    /\ NoLocalityMatches(df, request.args[1])
    /\ response.returned.data_source = "Sample Data"
    /\ response.returned.area = Lower(sAundh)

\* the row of the earliest year (the first stored among equals) and the row of
\* the latest year (the last stored among equals)
EarliestRow(rows) ==
    rows[CHOOSE i \in 1..Len(rows) :
            \A j \in 1..Len(rows) :
                rows[j].year > rows[i].year \/ (rows[j].year = rows[i].year /\ j >= i)]

LatestRow(rows) ==
    rows[CHOOSE i \in 1..Len(rows) :
            \A j \in 1..Len(rows) :
                rows[j].year < rows[i].year \/ (rows[j].year = rows[i].year /\ j <= i)]

\* a / b = c / d for b > 0 and d > 0, by the continued fractions of both
\* (no product is formed)
RECURSIVE SameFraction(_, _, _, _)
SameFraction(a, b, c, d) ==
    IF a \div b # c \div d THEN FALSE
    ELSE IF a % b = 0 \/ c % d = 0 THEN a % b = c % d
    ELSE SameFraction(b, a % b, d, c % d)

\* x is the percentage (last - first) / first * 100 of the rows, or 0 when
\* there are fewer than 2 rows or the first price is 0
IsGuardedGrowth(x, rows) ==
    LET first == EarliestRow(rows).price
        last == LatestRow(rows).price
    IN  /\ x.k = "fin"
        /\ IF Len(rows) < 2 \/ first = 0 THEN x.n = 0
           ELSE SameFraction(x.n, x.d, (last - first) * 100, first)

\* C2: the price-growth percentage of the summary and of the detailed
\* breakdown equals (last.price - first.price) / first.price * 100 over the
\* rows sorted by year, and 0 when there are fewer than 2 rows or first.price
\* is 0; no division by zero occurs.
C2_GrowthGuardedAgainstZero ==
    /\ \A r \in Results :
        /\ IsGuardedGrowth(r.summary.price_growth, r.table_data)
        /\ r.summary.growth_analysis.kind = "info" =>
               IsGuardedGrowth(r.summary.growth_analysis.growth_percentage, r.table_data)
    /\ (request.op = "analyze_query" /\ response.intent = "PriceGrowth") =>
           response.status # 500

\* C3 as claimed: the empty query is answered with the analysis of the default
\* locality, under the SingleArea intent, and not with an error.
C3_EmptyQueryDefaults ==
    (request.op = "analyze_query" /\ request.args[1] = <<>>) =>
        /\ response.status = 200
        /\ response.intent = "SingleArea"
        /\ response.body.type = "analysis"
        /\ response.body.result = analyze_area(df, DefaultArea)

\* C3, amended: the empty query is answered with the empty-query error (status
\* 400) and no intent; the default locality is what a non-empty query gets
\* that names neither a comparison nor a price-growth analysis and from which
\* no area can be extracted.
C3_EmptyQueryIsError ==
    request.op = "analyze_query" =>
        LET query == Lower(request.args[1])
        IN  /\ query = <<>> =>
                /\ response.status = 400
                /\ response.intent = "none"
                /\ response.body.type = "error"
            /\ ( /\ query # <<>>
                 /\ ~Contains(query, kwCompare)
                 /\ ~Contains(query, kwPriceGrowth)
                 /\ ~Contains(query, kwPriceTrend)
                 /\ ~Truthy(extract_single_area_from_query(query)) ) =>
                /\ response.status = 200
                /\ response.intent = "SingleArea"
                /\ response.body.type = "analysis"
                /\ response.body.result = analyze_area(df, DefaultArea)

C3_Witness ==
    /\ request.op = "analyze_query"
    /\ request.args[1] = <<>>
    /\ response.status = 400

\* C4: the intent rules apply in a fixed order to every non-empty query:
\* "compare" gives Compare even beside "price growth" or "price trend";
\* otherwise either of those gives PriceGrowth; otherwise SingleArea.
C4_IntentOrder ==
    (request.op = "analyze_query" /\ request.args[1] # <<>>) =>
        LET query == Lower(request.args[1])
        IN  /\ Contains(query, kwCompare) => response.intent = "Compare"
            /\ ( /\ ~Contains(query, kwCompare)
                 /\ Contains(query, kwPriceGrowth) \/ Contains(query, kwPriceTrend) ) =>
                    response.intent = "PriceGrowth"
            /\ ( /\ ~Contains(query, kwCompare)
                 /\ ~Contains(query, kwPriceGrowth)
                 /\ ~Contains(query, kwPriceTrend) ) =>
                    response.intent = "SingleArea"

\* a query with both "compare" and "price growth" is answered as a comparison
C4_Witness ==
    /\ request.op = "analyze_query"
    /\ Contains(Lower(request.args[1]), kwCompare)
    /\ Contains(Lower(request.args[1]), kwPriceGrowth)
    /\ response.intent = "Compare"
    /\ response.body.type = "comparison"

\* a non-empty, single-spaced text none of whose words is the separator "and"
\* and which does not hold the keyword "compare"
IsFragment(s) ==
    /\ s # <<>>
    /\ s = JoinSpace(Words(s))
    /\ \A i \in 1..Len(Words(s)) : Words(s)[i] # <<"a","n","d">>
    /\ ~Contains(s, kwCompare)

\* what follows "compare " in a lower-cased query that starts with it
AfterCompare(q) == Drop(q, Len(kwCompare) + 1)

IsComparisonOf(resp, rows, a1, a2) ==
    /\ resp.intent = "Compare"
    /\ resp.body.type = "comparison"
    /\ resp.body.comparison_summary = <<a1, a2>>
    /\ resp.body.area1 = analyze_area(rows, a1)
    /\ resp.body.area2 = analyze_area(rows, a2)

\* C5: a query "compare X and Y" with X and Y non-empty area fragments gives
\* Compare{title-cased X, title-cased Y}, in query order; " and " separates
\* before a comma does, and a comma before the first two words are taken.
C5_CompareExtraction ==
    (request.op = "analyze_query"
        /\ StartsWith(Lower(request.args[1]), Append(kwCompare, " "))) =>
        LET rest == AfterCompare(Lower(request.args[1]))
            words == Words(rest)
        IN  /\ \A i \in 1..Len(rest) :
                   LET x == SubSeq(rest, 1, i - 1)
                       y == Drop(rest, i + Len(sepAnd) - 1)
                   IN  ( /\ StartsWith(Drop(rest, i - 1), sepAnd)
                         /\ IsFragment(x)
                         /\ IsFragment(y) ) =>
                           IsComparisonOf(response, df, Title(x), Title(y))
            /\ ~Contains(rest, sepAnd) =>
                   \A i \in 1..Len(rest) :
                       LET x == Strip(SubSeq(rest, 1, i - 1))
                           y == Strip(Drop(rest, i))
                       IN  ( /\ rest[i] = ","
                             /\ IsFragment(x) /\ ~Contains(x, sepComma)
                             /\ IsFragment(y) /\ ~Contains(y, sepComma) ) =>
                               IsComparisonOf(response, df, Title(x), Title(y))
            /\ ( /\ ~Contains(rest, sepAnd)
                 /\ ~Contains(rest, sepComma)
                 /\ ~Contains(rest, kwCompare)
                 /\ Len(words) >= 2 ) =>
                   IsComparisonOf(response, df, Title(words[1]), Title(words[2]))

\* "compare wakad, and Aundh": " and " separates although a comma is there
C5_Witness ==
    /\ request.op = "analyze_query"
    /\ request.args[1] = <<"c","o","m","p","a","r","e"," ","w","a","k","a","d",","," ","a","n","d"," ","A","u","n","d","h">>
    /\ response.body.type = "comparison"
    /\ response.body.comparison_summary = <<<<"W","a","k","a","d",",">>, <<"A","u","n","d","h">>>>

\* the area a query names when its stop words are dropped word by word
TokenwiseArea(query) ==
    LET Removed == {query_words[i] : i \in 1..Len(query_words)} \cup stop_words
        Kept(word) == word \notin Removed /\ ~IsDigitStr(word)
    IN  Title(JoinSpace(SelectSeq(Words(query), Kept)))

\* C6: for price-growth and single-area queries the extracted area is the
\* title-cased, space-joined sequence of exactly those words of the query that
\* are in neither stop-word list and are not purely numeric; a word that only
\* contains a stop word is kept whole.
C6_StopWordsPerToken ==
    (request.op = "analyze_query"
        /\ request.args[1] # <<>>
        /\ ~Contains(Lower(request.args[1]), kwCompare)
        /\ TokenwiseArea(Lower(request.args[1])) # <<>>) =>
        /\ response.body.type = "analysis"
        /\ [response.body.result EXCEPT !.summary.growth_analysis = NoGrowthAnalysis]
               = analyze_area(df, TokenwiseArea(Lower(request.args[1])))

\* C7: area resolution prefers an exact match: a locality whose name equals the
\* fragment, whatever the case, is the one resolved, even after a locality
\* that only contains the fragment; without an exact match the first locality
\* containing the fragment is resolved.
C7_ExactMatchPreferred ==
    (request.op = "analyze_area" /\ Len(df) > MinRealRows) =>
        LET fragment == Lower(request.args[1])
            IsExact(area) == Lower(area) = fragment
            Holds(area) == Contains(Lower(area), fragment)
            r == response.returned
        IN  IF SelectSeq(UniqueAreas(df), IsExact) # <<>>
            THEN r.data_source = "Real Excel Data" /\ r.area = SelectSeq(UniqueAreas(df), IsExact)[1]
            ELSE SelectSeq(UniqueAreas(df), Holds) # <<>> =>
                    r.data_source = "Real Excel Data" /\ r.area = SelectSeq(UniqueAreas(df), Holds)[1]

\* C8: area resolution with an empty fragment finds nothing, for every
\* dataset: the result is the sample fallback, never a locality of the dataset.
C8_EmptyFragmentNotFound ==
    (request.op = "analyze_area" /\ request.args[1] = <<>>) =>
        response.returned.data_source = "Sample Data"

\* C9: a non-empty query from which the needed area names can be extracted is
\* answered with an analysis or a comparison, never with status 500, whatever
\* the rows (a price of 0, a single row).
C9_NoUnexpectedFailure ==
    (request.op = "analyze_query" /\ request.args[1] # <<>>) =>
        LET query == Lower(request.args[1])
            extracted ==
                IF Contains(query, kwCompare) THEN Len(extract_multiple_areas(query)) >= 2
                ELSE IF Contains(query, kwPriceGrowth) \/ Contains(query, kwPriceTrend)
                THEN Truthy(extract_single_area_from_query(query))
                ELSE TRUE
        IN  extracted =>
                /\ response.status # 500
                /\ response.body.type \in {"analysis", "comparison"}

\* the growth the analysis computes from the rows exceeds c percent: the
\* quotient is infinite for a zero first price and a higher last one, and not
\* a number (greater than nothing) when both are 0
GrowthExceeds(rows, c) ==
    LET first == EarliestRow(rows).price
        last == LatestRow(rows).price
    IN  IF Len(rows) < 2 THEN 0 > c
        ELSE IF first > 0 THEN (last - first) * 100 > c * first
        ELSE last > first

MainTrendIsBanded(r) ==
    r.summary.price_trend =
        IF GrowthExceeds(r.table_data, 15) THEN "significant growth"
        ELSE IF GrowthExceeds(r.table_data, 5) THEN "moderate growth"
        ELSE "stable"

\* C10 as claimed: the main trend label is banded at 15 and 5, and so is every
\* other statement of the summary that classifies the price trend.
C10_OneSetOfThresholds ==
    \A r \in Results :
        /\ MainTrendIsBanded(r)
        /\ r.summary.market = "stable" <=> r.summary.price_trend = "stable"
        /\ r.summary.growth_analysis.kind = "info" =>
               /\ r.summary.growth_analysis.trend = "Strong growth"
                      <=> r.summary.price_trend = "significant growth"
               /\ r.summary.growth_analysis.trend \in {"Slow growth", "Price decline"}
                      <=> r.summary.price_trend = "stable"

\* C10, amended: the main trend label is banded at 15 and 5 of the computed
\* growth (above 15 significant, above 5 up to 15 moderate, else stable); the
\* market statement has its own threshold, 10, and the detailed breakdown its
\* own bands, 20, 10 and 0.
C10_TrendThresholds ==
    \A r \in Results :
        /\ MainTrendIsBanded(r)
        /\ r.summary.market =
               IF GrowthExceeds(r.table_data, 10) THEN "appreciating" ELSE "stable"
        /\ r.summary.growth_analysis.kind = "info" =>
               r.summary.growth_analysis.trend =
                   IF GrowthExceeds(r.table_data, 20) THEN "Strong growth"
                   ELSE IF GrowthExceeds(r.table_data, 10) THEN "Moderate growth"
                   ELSE IF GrowthExceeds(r.table_data, 0) THEN "Slow growth"
                   ELSE "Price decline"

\* a growth of exactly 15 percent is moderate, and the market appreciating
C10_Witness ==
    \E r \in Results :
        /\ Len(r.table_data) >= 2
        /\ EarliestRow(r.table_data).price = 100
        /\ LatestRow(r.table_data).price = 115
        /\ r.summary.price_trend = "moderate growth"
        /\ r.summary.market = "appreciating"

\* the years of a row sequence, in its order
YearsOf(rows) == [i \in 1..Len(rows) |-> rows[i].year]

IsAscending(years) == \A i \in 1..(Len(years) - 1) : years[i] <= years[i + 1]

\* C11: in every analysis result the table rows are in ascending year order,
\* the order of the chart labels: the years of table_data are the labels of
\* both chart series, and the i-th price and demand of the series are those
\* of the i-th table row.
C11_TableInChartOrder ==
    \A r \in Results :
        /\ IsAscending(YearsOf(r.table_data))
        /\ YearsOf(r.table_data) = r.chart_data.price_trend.labels
        /\ YearsOf(r.table_data) = r.chart_data.demand_trend.labels
        /\ \A i \in 1..Len(r.table_data) :
               /\ r.chart_data.price_trend.data[i] = r.table_data[i].price
               /\ r.chart_data.demand_trend.data[i] = r.table_data[i].demand

\* the result says its rows are real market data
LabelledReal(r) == r.data_source = "Real Excel Data" \/ r.summary.is_real_data

\* C13: the provenance tag is truthful.  A result is labelled real only if
\* the Excel file was loaded and its rows are rows of the loaded dataset; when
\* loading failed and the built-in sample dataset took its place, every
\* result, for every area, is labelled Sample.
C13_ProvenanceTruthful ==
    \A r \in Results :
        /\ LabelledReal(r) =>
               /\ ~LoadFails(file)
               /\ \A i \in 1..Len(r.table_data) :
                      \E j \in 1..Len(df) : df[j] = r.table_data[i]
        /\ LoadFails(file) =>
               /\ r.data_source = "Sample Data"
               /\ ~r.summary.is_real_data

\* the rows of the file that clean_data keeps (a locality and a year that
\* is a number), with the columns process_real_data chose
KeptRows ==
    LET Kept(r) == r.area.k # "nan" /\ r.year.k = "fin"
    IN  SelectSeq(required_columns(file.columns, file.rows).rows, Kept)

DemandColumn(rows) == [i \in 1..Len(rows) |-> rows[i].demand]

\* a column of numbers and blanks, with a number in it
IsNumericColumn(cells) ==
    /\ \A i \in 1..Len(cells) : cells[i].k \in {"fin", "nan"}
    /\ \E i \in 1..Len(cells) : cells[i].k = "fin"

WithinPercent(x) == x.k = "fin" /\ Le(Whole(0), x) /\ Le(x, Whole(100))

\* the Excel file has been loaded into df
Loaded == request = NoRequest /\ ~LoadFails(file)

\* C12: every row of the dataset the loader produces has its demand within
\* [0,100], for every numeric demand column of the file; when the maximum of
\* the file's column exceeds 100 the maximum of the loaded column is 100.
C12_DemandWithinPercent ==
    LET source == DemandColumn(required_columns(file.columns, file.rows).rows)
    IN  Loaded /\ IsNumericColumn(source) =>
            /\ \A i \in 1..Len(df) : WithinPercent(df[i].demand)
            /\ Gt(Max(source), 100) /\ df # <<>> => Max(DemandColumn(df)) = Whole(100)

\* C12, amended: when the demand cells of the rows the loader keeps are
\* blanks and numbers that are not negative, with a number among them, every
\* row of the loaded dataset has its demand within [0,100]; when the maximum
\* of those cells exceeds 100 the column is rescaled in proportion (each
\* number times 100 over the maximum) and its new maximum is 100, otherwise
\* each number is kept as it is.
C12_KeptDemandWithinPercent ==
    LET source == DemandColumn(KeptRows)
    IN  /\ Loaded
        /\ IsNumericColumn(source)
        /\ \A i \in 1..Len(source) : source[i].k = "fin" => Le(Whole(0), source[i])
        =>  /\ Len(df) = Len(source)
            /\ \A i \in 1..Len(df) : WithinPercent(df[i].demand)
            /\ IF Gt(Max(source), 100)
               THEN /\ Max(DemandColumn(df)) = Whole(100)
                    /\ \A i \in 1..Len(df) :
                           source[i].k = "fin" =>
                               Product(df[i].demand, Max(source))
                                   = Product(source[i], Whole(100))
               ELSE \A i \in 1..Len(df) :
                        source[i].k = "fin" => df[i].demand = source[i]

\* a file loaded with a row dropped and the demands 40 and 200 kept: the
\* column is rescaled to 20 and 100
C12_Witness ==
    /\ Loaded
    /\ Len(file.rows) > Len(df)
    /\ DemandColumn(KeptRows) = <<Whole(40), Whole(200)>>
    /\ DemandColumn(df) = <<Whole(20), Whole(100)>>

\* what analysis mode answers to the query of the export request in hand
AnalysisOfExport == analyze_query(df, request.args[1])

\* C14: export mode and analysis mode agree on every non-empty query.  Export
\* produces a row sequence exactly when analysis produces a result for the
\* same query; the exported rows are that result's table_data for a
\* single-area or price-growth query, and area1's table_data followed by
\* area2's for a comparison.
C14_ExportAgreesWithAnalysis ==
    request.op = "download_data" /\ request.args[1] # <<>> =>
        /\ response.body.type = "file"
               <=> AnalysisOfExport.body.type \in {"analysis", "comparison"}
        /\ response.body.type = "file" /\ AnalysisOfExport.body.type = "analysis" =>
               response.body.rows = AnalysisOfExport.body.result.table_data
        /\ response.body.type = "file" /\ AnalysisOfExport.body.type = "comparison" =>
               response.body.rows = AnalysisOfExport.body.area1.table_data
                                        \o AnalysisOfExport.body.area2.table_data

====
